---- MODULE Spec2Model ----
(***************************************************************************)
(* Token-based distributed mutual exclusion of Distributed-Lab4:           *)
(*   src/modules/Server/Lock/distributedLock.py  (DistributedLock)         *)
(*   src/modules/Server/peerList.py              (PeerList)                *)
(*   src/modules/Common/orb.py                   (Stub / Request / Peer)   *)
(*   src/lab3/name_server.py                     (NameServer)              *)
(*                                                                         *)
(* A peer process is named by the id the name server gives it (the k-th    *)
(* process to register is process k, name_server.py:65-66), and its        *)
(* address is AddrOf(id).  Every remote call is synchronous (orb.py:126-   *)
(* 148), so a chain "application thread -> worker at q -> worker at r" is  *)
(* a stack of frames; each frame runs in a thread of the process it is at. *)
(***************************************************************************)
EXTENDS Integers, Sequences, FiniteSets, TLC

\* ------------------------------------------------------------------ bounds
GroupSize == 2         \* peers of the joined group of Spec and SpecOpen
FairSize == 3          \* peers of the joined group of SpecFair
LifeSize == 2          \* processes that start and leave in SpecLife
MaxTime == 2           \* acquire() is not called once a peer's clock is here
LifeTime == 1          \* the same, in SpecLife
MaxArgs == 2           \* arguments an error of SpecWire carries, at most

\* --------------------------------------------------------------- constants
NO_TOKEN == 0
TOKEN_PRESENT == 1
TOKEN_HELD == 2

Largest(S) == CHOOSE m \in S : \A x \in S : x <= m

NumPeers == Largest({GroupSize, FairSize, LifeSize})   \* processes of the model
Procs == 0 .. (NumPeers - 1)
External == NumPeers            \* a client that is not a peer of the group
Roots == Procs \cup {External}  \* roots of call chains
NameService == NumPeers + 1     \* where a frame of the name server runs

VARIABLES
    next_id,    \* NameServer.next_id
    group,      \* NameServer.peers[type]: set of <<id, address>>
    phase,      \* where each process's main thread is in its life
    listening,  \* whether the process's Skeleton accepts connections
    peers,      \* PeerList.peers: sequence of <<id, address>>, insertion order
    state,      \* DistributedLock.state
    time,       \* DistributedLock.time
    token,      \* DistributedLock.token (dict)
    request,    \* DistributedLock.request (dict)
    mutex,      \* PeerList.lock (threading.Condition: a re-entrant lock)
    stack       \* per root, the frames of the call chain in progress

nsVars == <<next_id, group>>
lifeVars == <<phase, listening>>
lockVars == <<state, time, token, request>>
vars == <<next_id, group, phase, listening, peers, state, time, token,
          request, mutex, stack>>

\* ------------------------------------------------------------ dictionaries
EmptyDict == [k \in {} |-> 0]

Put(d, k, v) == [x \in (DOMAIN d) \cup {k} |-> IF x = k THEN v ELSE d[x]]

Del(d, k) == [x \in (DOMAIN d) \ {k} |-> d[x]]

AddrOf(id) == 40000 + id

ProcAt(addr) == addr - 40000

\* keys of a PeerList.peers dict
Keys(tbl) == {tbl[i][1] : i \in 1 .. Len(tbl)}

\* self.peers[pid] (the address the Stub is bound to); pid must be a key
StubOf(tbl, pid) == LET i == CHOOSE j \in 1 .. Len(tbl) : tbl[j][1] = pid
                    IN  tbl[i][2]

\* a table that takes no entry
TablePutDropped(tbl, pid, paddr) == tbl

\* self.peers[pid] = orb.Stub(paddr): a present key keeps its position
TablePut(tbl, pid, paddr) ==
    IF pid \in Keys(tbl)
    THEN [i \in 1 .. Len(tbl) |->
             IF tbl[i][1] = pid THEN <<pid, paddr>> ELSE tbl[i]]
    ELSE Append(tbl, <<pid, paddr>>)

\* del self.peers[pid]
TableDel(tbl, pid) == SelectSeq(tbl, LAMBDA e : e[1] # pid)

\* sorted(...): the ids of a set in ascending order (the i-th is the one with
\* i - 1 smaller ids)
Sorted(S) ==
    [i \in 1 .. Cardinality(S) |->
        CHOOSE x \in S : Cardinality({y \in S : y < x}) = i - 1]

\* ------------------------------------------------- DistributedLock, pure parts
\* _prepare: the dict as a list of (key, value) pairs (its JSON form is a list
\* of two-element lists, so integer keys stay integers)
Prepare(tok) == {<<k, tok[k]>> : k \in DOMAIN tok}

\* _unprepare: dict(list of pairs)
Unprepare(pairs) ==
    [k \in {pr[1] : pr \in pairs} |-> (CHOOSE pr \in pairs : pr[1] = k)[2]]

\* an obtain_token that always takes the critical section
ObtainTokenStateHeld(tm, tok, self) == TOKEN_HELD

\* obtain_token, lines 168-172: the state the receiver ends in
ObtainTokenState(tm, tok, self) ==
    IF tm > tok[self] THEN TOKEN_HELD ELSE TOKEN_PRESENT

\* an obtain_token that stamps nothing
ObtainTokenMapUnstamped(tm, tok, self) == tok

\* obtain_token, lines 167-169: the token map the receiver ends with
ObtainTokenMap(tm, tok, self) ==
    IF tm > tok[self] THEN Put(tok, self, tm) ELSE tok

\* a clock that stands still
TickStalled(t) == t

\* acquire, line 100: self.time = self.time + 1
Tick(t) == t + 1

\* request_token, lines 155-156
NewRequest(old, t) == IF t > old THEN t ELSE old

\* a handler that never forwards
ForwardsNever(st, t, tok, pid) == FALSE

\* request_token, line 157: when the handler forwards the token
Forwards(st, t, tok, pid) == st = TOKEN_PRESENT

\* a scan that takes every peer for pending
PendingAlways(req, tok, k) == TRUE

\* a wait that ends at once
UnblockedAlways(st) == TRUE

\* acquire, line 106: while self.state is not TOKEN_HELD
Unblocked(st) == st = TOKEN_HELD

\* a release() that acts whenever the token is here
ReleaseActsPresent(st) == st # NO_TOKEN

\* release, line 129: the test of self.state
ReleaseActs(st) == st = TOKEN_HELD

\* release, line 134: the test of the scan
Pending(req, tok, k) == req[k] > tok[k]

\* release, lines 133-139: the scan over sorted(get_peers()); a key missing
\* from request or token before a hit is a KeyError
RECURSIVE ScanFrom(_, _, _)
ScanFrom(ids, req, tok) ==
    IF ids = << >> THEN <<"none">>
    ELSE LET k == Head(ids)
         IN  IF k \notin DOMAIN req \/ k \notin DOMAIN tok THEN <<"KeyError">>
             ELSE IF Pending(req, tok, k) THEN <<"send", k>>
             ELSE ScanFrom(Tail(ids), req, tok)

\* a release() that hands the token over and keeps it
ReleaseHitStateKept == TOKEN_PRESENT

\* release, line 135: the state of a peer that found a pending request
ReleaseHitState == NO_TOKEN

\* a request_token() that hands the token over and keeps it
HandedOverStateKept == TOKEN_PRESENT

\* request_token, line 160: the state of an idle holder after a delivered
\* obtain_token
HandedOverState == NO_TOKEN

\* a release() that empties the map it hands over
StampedMapCleared(tok, self, tm) == EmptyDict

\* release, line 136: self.token[self.owner.id] = self.time
StampedMap(tok, self, tm) == Put(tok, self, tm)

\* a scan from the largest id down
ScanOrderDescending(tbl) ==
    [i \in 1 .. Len(Sorted(Keys(tbl))) |->
        Sorted(Keys(tbl))[Len(Sorted(Keys(tbl))) + 1 - i]]

\* release, line 133: the order of the scan
ScanOrder(tbl) == Sorted(Keys(tbl))

\* --------------------------------------------------------- threads and frames
Frame(op, at, pc, rpc, a, l) ==
    [op |-> op, at |-> at, pc |-> pc, rpc |-> rpc, a |-> a, l |-> l, ret |-> ""]

Top(r) == stack[r][Len(stack[r])]

At(r, op, pc) == stack[r] # << >> /\ Top(r).op = op /\ Top(r).pc = pc

\* the root has no call in progress
Idle(r) == stack[r] = << >> \/ (Len(stack[r]) = 1 /\ stack[r][1].pc = "done")

\* the thread a frame runs in: a frame entered by a plain call shares its
\* caller's thread, a frame entered by a remote call has a worker of its own
\* (orb.py:186-188)
RECURSIVE Base(_, _)
Base(s, i) == IF i <= 1 \/ s[i].rpc THEN i ELSE Base(s, i - 1)

ThreadOf(r, i) == <<r, Base(stack[r], i)>>

Thread(r) == ThreadOf(r, Len(stack[r]))

Free == [owner |-> << >>, count |-> 0]

\* threading.Condition() wraps an RLock: the owner may take it again
CanLock(q, th) == mutex[q].count = 0 \/ mutex[q].owner = th

Lock(q, th) == [mutex EXCEPT ![q] = [owner |-> th, count |-> @.count + 1]]

Unlock(q) == [mutex EXCEPT ![q] =
                 IF @.count = 1 THEN Free ELSE [@ EXCEPT !.count = @ - 1]]

\* What the caller of a remote method gets (orb.py:84-97, 137-151): the
\* handler's OSError comes back as an error response and raises ExternalError;
\* any other exception leaves process_request, no line is written, the client
\* reads an empty line and raises ProtocolError.
Wire(e) == IF e = "ok" THEN "ok"
           ELSE IF e = "OSError" THEN "ExternalError"
           ELSE "ProtocolError"

\* a finished top-level call: what is kept is the operation and how it ended
Done(fr, e) == [fr EXCEPT !.pc = "done", !.ret = e, !.a = << >>, !.l = << >>]

\* the calls the owner makes when it is built or destroyed; that one of them
\* has returned is seen in phase
OwnerCalls == {"initialize", "lock_initialize", "destroy", "lock_destroy",
               "pl_destroy"}

\* the top frame of s returns (e = "ok") or raises e
Returned(s, e) ==
    LET n == Len(s)
        out == IF s[n].rpc THEN Wire(e) ELSE e
    IN  IF n = 1
        THEN IF s[1].op \in OwnerCalls /\ out = "ok" THEN << >>
             ELSE << Done(s[1], out) >>
        ELSE Append(SubSeq(s, 1, n - 2), [s[n - 1] EXCEPT !.ret = out])

\* the top frame becomes fr and calls method g.op of the process g.at over the
\* network; a process that does not listen refuses the connection
\* (socket.create_connection raises an OSError in the caller)
Invoke(s, fr, g) ==
    LET below == SubSeq(s, 1, Len(s) - 1)
    IN  IF listening[g.at]
        THEN below \o << [fr EXCEPT !.ret = ""], g >>
        ELSE Append(below, [fr EXCEPT !.ret = "OSError"])

SetTop(s, fr) == Append(SubSeq(s, 1, Len(s) - 1), fr)

\* frames of every call chain, as <<root, index>>
FrameIds == {<<r, i>> \in Roots \X (1 .. 4) : i <= Len(stack[r])}

FrameOf(f) == stack[f[1]][f[2]]

IsTop(f) == f[2] = Len(stack[f[1]])

\* ------------------------------------------------------ DistributedLock.acquire
\* lines 99-112, up to the broadcast: the clock advances under the mutex; from
\* NO_TOKEN the mutex is released and the broadcast starts, otherwise the
\* token map goes through obtain_token with the mutex held (one critical
\* section, no remote call in it)
AcquireOn(p, tm, tokens, requests, stacks) ==
    /\ phase[p] = "ready" /\ Idle(p)
    /\ CanLock(p, <<p, 1>>)
    /\ time' = [tm EXCEPT ![p] = Tick(@)]
    /\ request' = requests
    /\ LET fr == Frame("acquire", p, "bcast", FALSE, << >>,
                       <<1, Len(peers[p])>>)
           tok == Unprepare(Prepare(tokens[p]))
       IN  IF state[p] = NO_TOKEN
           THEN /\ stack' = [stacks EXCEPT ![p] = <<fr>>]
                /\ token' = tokens
                /\ UNCHANGED state
           ELSE IF p \notin DOMAIN tok
           THEN /\ stack' = [stacks EXCEPT ![p] = <<Done(fr, "KeyError")>>]
                /\ token' = tokens
                /\ UNCHANGED state
           ELSE /\ token' = [tokens EXCEPT
                               ![p] = ObtainTokenMap(time'[p], tok, p)]
                /\ state' = [state EXCEPT
                               ![p] = ObtainTokenState(time'[p], tok, p)]
                /\ stack' = [stacks EXCEPT ![p] = <<Done(fr, "ok")>>]
    /\ UNCHANGED <<nsVars, lifeVars, peers, mutex>>

Acquire(p) ==
    /\ time[p] < MaxTime
    /\ AcquireOn(p, time, token, request, stack)

\* lines 103-105: one turn of "for id in get_peers()": the dict itself is
\* iterated (PeerList.get_peers returns self.peers), so a change of its size
\* since the loop began raises RuntimeError; a failed call ends acquire()
AcquireBroadcast(p) ==
    /\ At(p, "acquire", "bcast")
    /\ LET fr == Top(p)
           i == fr.l[1]
           n == fr.l[2]
           tbl == peers[p]
       IN  IF fr.ret \notin {"", "ok"}
           THEN stack' = [stack EXCEPT ![p] = Returned(@, fr.ret)]
           ELSE /\ CanLock(p, Thread(p))
                /\ IF Len(tbl) # n
                   THEN stack' = [stack EXCEPT
                                    ![p] = Returned(@, "RuntimeError")]
                   ELSE IF i > n
                   THEN stack' = [stack EXCEPT
                           ![p] = SetTop(@, [fr EXCEPT !.pc = "wait",
                                                       !.ret = ""])]
                   ELSE stack' = [stack EXCEPT
                           ![p] = Invoke(@, [fr EXCEPT !.l = <<i + 1, n>>],
                                   Frame("request_token", ProcAt(tbl[i][2]),
                                         "start", TRUE,
                                         <<time[p], p>>, << >>))]
    /\ UNCHANGED <<nsVars, lifeVars, peers, lockVars, mutex>>

\* lines 106-107: the spin on self.state
AcquireWait(p) ==
    /\ At(p, "acquire", "wait")
    /\ Unblocked(state[p])
    /\ stack' = [stack EXCEPT ![p] = Returned(@, "ok")]
    /\ UNCHANGED <<nsVars, lifeVars, peers, lockVars, mutex>>

\* ------------------------------------------------------ DistributedLock.release
\* line 129: the test of self.state, made without the mutex
Release(p) ==
    /\ phase[p] = "ready" /\ Idle(p)
    /\ LET fr == Frame("release", p, "scan", FALSE, << >>, << >>)
       IN  stack' = [stack EXCEPT ![p] =
                        IF ReleaseActs(state[p]) THEN <<fr>>
                        ELSE <<Done(fr, "ok")>>]
    /\ UNCHANGED <<nsVars, lifeVars, peers, lockVars, mutex>>

\* lines 130-139: under the mutex, TOKEN_PRESENT, then the scan; on a hit the
\* state is NO_TOKEN, token[self] is stamped and obtain_token is called on the
\* peer, the mutex still held
ReleaseScan(r) ==
    /\ At(r, "release", "scan")
    /\ LET fr == Top(r)
           q == fr.at
           res == ScanFrom(ScanOrder(peers[q]), request[q], token[q])
           tok == StampedMap(token[q], q, time[q])
       IN  /\ CanLock(q, Thread(r))
           /\ IF res[1] = "send"
              THEN /\ state' = [state EXCEPT ![q] = ReleaseHitState]
                   /\ token' = [token EXCEPT ![q] = tok]
                   /\ mutex' = Lock(q, Thread(r))
                   /\ stack' = [stack EXCEPT
                         ![r] = Invoke(@, [fr EXCEPT !.pc = "sent"],
                                  Frame("obtain_token",
                                        ProcAt(StubOf(peers[q], res[2])),
                                        "start", TRUE, <<Prepare(tok)>>,
                                        << >>))]
              ELSE /\ state' = [state EXCEPT ![q] = TOKEN_PRESENT]
                   /\ stack' = [stack EXCEPT ![r] =
                         Returned(@, IF res[1] = "none" THEN "ok"
                                     ELSE "KeyError")]
                   /\ UNCHANGED <<token, mutex>>
    /\ UNCHANGED <<nsVars, lifeVars, peers, time, request>>

\* lines 139-141: after the call, break, and the finally releases the mutex
ReleaseSent(r) ==
    /\ At(r, "release", "sent")
    /\ Top(r).ret # ""
    /\ mutex' = Unlock(Top(r).at)
    /\ stack' = [stack EXCEPT ![r] = Returned(@, Top(r).ret)]
    /\ UNCHANGED <<nsVars, lifeVars, peers, lockVars>>

\* ------------------------------------------------ DistributedLock.request_token
\* lines 153-159: the request is recorded; an idle holder calls obtain_token on
\* the requester with the mutex held
RequestToken(r) ==
    /\ At(r, "request_token", "start")
    /\ LET fr == Top(r)
           q == fr.at
           t == fr.a[1]
           pid == fr.a[2]
       IN  /\ CanLock(q, Thread(r))
           /\ IF pid \notin DOMAIN request[q]
              THEN /\ stack' = [stack EXCEPT ![r] = Returned(@, "KeyError")]
                   /\ UNCHANGED <<request, mutex>>
              ELSE /\ request' = [request EXCEPT ![q] =
                          Put(@, pid, NewRequest(@[pid], t))]
                   /\ IF ~Forwards(state[q], t, token[q], pid)
                      THEN /\ stack' = [stack EXCEPT
                                          ![r] = Returned(@, "ok")]
                           /\ UNCHANGED mutex
                      ELSE IF pid \notin Keys(peers[q])
                      THEN /\ stack' = [stack EXCEPT
                                          ![r] = Returned(@, "KeyError")]
                           /\ UNCHANGED mutex
                      ELSE /\ mutex' = Lock(q, Thread(r))
                           /\ stack' = [stack EXCEPT
                                ![r] = Invoke(@, [fr EXCEPT !.pc = "sent"],
                                         Frame("obtain_token",
                                               ProcAt(StubOf(peers[q], pid)),
                                               "start", TRUE,
                                               <<Prepare(token[q])>>,
                                               << >>))]
    /\ UNCHANGED <<nsVars, lifeVars, peers, state, time, token>>

\* lines 160-162: after the call the state is NO_TOKEN; a failed call skips
\* the assignment; the finally releases the mutex
RequestTokenSent(r) ==
    /\ At(r, "request_token", "sent")
    /\ Top(r).ret # ""
    /\ state' = [state EXCEPT ![Top(r).at] =
                    IF Top(r).ret = "ok" THEN HandedOverState ELSE @]
    /\ mutex' = Unlock(Top(r).at)
    /\ stack' = [stack EXCEPT ![r] = Returned(@, Top(r).ret)]
    /\ UNCHANGED <<nsVars, lifeVars, peers, time, token, request>>

\* ------------------------------------------------- DistributedLock.obtain_token
\* lines 165-174
ObtainToken(r) ==
    /\ At(r, "obtain_token", "start")
    /\ LET fr == Top(r)
           q == fr.at
           tok == Unprepare(fr.a[1])
       IN  /\ CanLock(q, Thread(r))
           /\ IF q \notin DOMAIN tok
              THEN /\ token' = [token EXCEPT ![q] = tok]
                   /\ stack' = [stack EXCEPT ![r] = Returned(@, "KeyError")]
                   /\ UNCHANGED state
              ELSE /\ token' = [token EXCEPT
                                  ![q] = ObtainTokenMap(time[q], tok, q)]
                   /\ state' = [state EXCEPT
                                  ![q] = ObtainTokenState(time[q], tok, q)]
                   /\ stack' = [stack EXCEPT ![r] = Returned(@, "ok")]
    /\ UNCHANGED <<nsVars, lifeVars, peers, time, request, mutex>>

\* ------------------------------------------------------ the owner of the lock
\* The class that owns the PeerList and the DistributedLock of a process is
\* not part of the sources.  What it runs for an inbound register_peer(pid,
\* paddr) or unregister_peer(pid): the operation of the PeerList, then the
\* operation of the lock.
OwnerDispatch(method) ==
    IF method = "register_peer" THEN <<"PeerList", "DistributedLock">>
    ELSE IF method = "unregister_peer" THEN <<"PeerList", "DistributedLock">>
    ELSE <<"DistributedLock">>

\* What the owner runs when it is built, and when it is destroyed.
OwnerInit == <<"Peer.start", "PeerList.initialize", "DistributedLock.initialize">>

OwnerDestroy == <<"Peer.destroy", "DistributedLock.destroy", "PeerList.destroy">>

\* Peer.id: -1 until the answer of the name server has been read
Id(p) == IF phase[p] \in {"none", "assigned", "added"} THEN -1 ELSE p

\* ------------------------------------------------- Peer.start and the directory
\* Peer.start: the Skeleton thread is started and register() is called; at the
\* name server the first critical section gives the id (the process that calls
\* next is, by name, process next_id)
PeerStart(p) ==
    /\ phase[p] = "none" /\ p = next_id /\ p < LifeSize
    /\ OwnerInit[1] = "Peer.start"
    /\ next_id' = next_id + 1
    /\ phase' = [phase EXCEPT ![p] = "assigned"]
    /\ UNCHANGED <<group, listening, peers, lockVars, mutex, stack>>

\* Skeleton.run: the listener is bound some time after the thread was started
SkeletonRun(p) ==
    /\ phase[p] \notin {"none", "gone"} /\ ~listening[p]
    /\ listening' = [listening EXCEPT ![p] = TRUE]
    /\ UNCHANGED <<nsVars, phase, peers, lockVars, mutex, stack>>

\* NameServer.register, second critical section: the peer joins the group
NsRegisterAdd(p) ==
    /\ phase[p] = "assigned"
    /\ group' = group \cup {<<p, AddrOf(p)>>}
    /\ phase' = [phase EXCEPT ![p] = "added"]
    /\ UNCHANGED <<next_id, listening, peers, lockVars, mutex, stack>>

\* Peer.start: self.id, self.hash = the answer
RegisterReturn(p) ==
    /\ phase[p] = "added"
    /\ phase' = [phase EXCEPT ![p] = "registered"]
    /\ UNCHANGED <<nsVars, listening, peers, lockVars, mutex, stack>>

\* --------------------------------------------------------- PeerList.initialize
\* lines 41-55: get_peers of the name server, asked with the mutex held
PeerListInitialize(p) ==
    /\ phase[p] = "registered"
    /\ OwnerInit[2] = "PeerList.initialize"
    /\ CanLock(p, <<p, 1>>)
    /\ stack' = [stack EXCEPT ![p] =
                    << Frame("initialize", p, "loop", FALSE,
                             <<group>>, <<group>>) >>]
    /\ phase' = [phase EXCEPT ![p] = "joining"]
    /\ UNCHANGED <<nsVars, listening, peers, lockVars, mutex>>

\* lines 59-62: one turn of the loop over peer_set (a set: any order): the
\* peer is put into the own table, then register_peer is called on it with
\* no mutex held; a failed call ends initialize()
PeerListInitializeLoop(p) ==
    /\ At(p, "initialize", "loop")
    /\ LET fr == Top(p)
           rest == fr.l[1]
       IN  IF fr.ret \notin {"", "ok"}
           THEN /\ stack' = [stack EXCEPT ![p] = Returned(@, fr.ret)]
                /\ phase' = [phase EXCEPT ![p] = "failed"]
                /\ UNCHANGED peers
           ELSE IF rest = {}
           THEN /\ stack' = [stack EXCEPT ![p] = Returned(@, "ok")]
                /\ phase' = [phase EXCEPT ![p] = "joined"]
                /\ UNCHANGED peers
           ELSE \E t \in rest :
                /\ CanLock(p, Thread(p))
                /\ peers' = [peers EXCEPT ![p] = TablePut(@, t[1], t[2])]
                /\ stack' = [stack EXCEPT
                      ![p] = Invoke(@, [fr EXCEPT !.l = <<rest \ {t}>>],
                               Frame("register_peer", ProcAt(t[2]), "start",
                                     TRUE, <<Id(p), AddrOf(p)>>, << >>))]
                /\ UNCHANGED phase
    /\ UNCHANGED <<nsVars, listening, lockVars, mutex>>

\* PeerList.register_peer, lines 82-87, as the first part of the owner's
\* register_peer
RegisterPeer(r) ==
    /\ At(r, "register_peer", "start")
    /\ OwnerDispatch("register_peer")[1] = "PeerList"
    /\ LET fr == Top(r)
           q == fr.at
       IN  /\ CanLock(q, Thread(r))
           /\ peers' = [peers EXCEPT ![q] = TablePut(@, fr.a[1], fr.a[2])]
           /\ stack' = [stack EXCEPT ![r] = SetTop(@, [fr EXCEPT !.pc = "lock"])]
    /\ UNCHANGED <<nsVars, lifeVars, lockVars, mutex>>

\* DistributedLock.register_peer, lines 68-74
LockRegisterPeer(r) ==
    /\ At(r, "register_peer", "lock")
    /\ OwnerDispatch("register_peer")[2] = "DistributedLock"
    /\ LET fr == Top(r)
           q == fr.at
           pid == fr.a[1]
       IN  /\ CanLock(q, Thread(r))
           /\ request' = [request EXCEPT ![q] = Put(@, pid, 0)]
           /\ token' = [token EXCEPT ![q] =
                           IF state[q] \in {TOKEN_HELD, TOKEN_PRESENT}
                           THEN Put(@, pid, 0) ELSE @]
           /\ stack' = [stack EXCEPT ![r] = Returned(@, "ok")]
    /\ UNCHANGED <<nsVars, lifeVars, peers, state, time, mutex>>

\* ------------------------------------------------- DistributedLock.initialize
\* line 46: sorted(keys)[0]; an empty table has no first key
FirstPeer(tbl) == IF tbl = << >> THEN <<"IndexError">>
                  ELSE <<"ok", Sorted(Keys(tbl))[1]>>

\* line 47: the test that sends a peer into the NO_TOKEN branch
NotFirst(first, id) == first # id

\* lines 48-52: the map of the NO_TOKEN branch
SeededMap(id, tm, tbl) == [k \in Keys(tbl) \cup {id} |->
                              IF k \in Keys(tbl) THEN 0 ELSE tm]

\* lines 44-57, under the mutex
LockInitialize(p) ==
    /\ phase[p] = "joined"
    /\ OwnerInit[3] = "DistributedLock.initialize"
    /\ CanLock(p, <<p, 1>>)
    /\ LET fr == Frame("lock_initialize", p, "start", FALSE, << >>, << >>)
           first == FirstPeer(peers[p])
       IN  IF first[1] = "IndexError"
           THEN /\ stack' = [stack EXCEPT ![p] = <<Done(fr, "IndexError")>>]
                /\ phase' = [phase EXCEPT ![p] = "failed"]
                /\ UNCHANGED <<state, token, request>>
           ELSE /\ stack' = [stack EXCEPT ![p] = << >>]
                /\ phase' = [phase EXCEPT ![p] = "ready"]
                /\ IF NotFirst(first[2], Id(p))
                   THEN /\ token' = [token EXCEPT
                              ![p] = SeededMap(Id(p), time[p], peers[p])]
                        /\ request' = [request EXCEPT
                              ![p] = SeededMap(Id(p), time[p], peers[p])]
                        /\ UNCHANGED state
                   ELSE /\ token' = [token EXCEPT
                              ![p] = Put(EmptyDict, Id(p), time[p])]
                        /\ state' = [state EXCEPT ![p] = TOKEN_PRESENT]
                        /\ UNCHANGED request
    /\ UNCHANGED <<nsVars, listening, peers, time, mutex>>

\* ----------------------------------------------- Peer.destroy and the directory
\* Peer.check as the name server sees it (name_server.py:138-140): the peer
\* answers, and with the id the name server knows it by
Alive(t) == listening[t[1]] /\ Id(t[1]) = t[1]

\* Peer.destroy calls unregister(); NameServer.unregister, lines 83-99: the
\* peer leaves the group, then a copy of the group is to be checked
PeerDestroy(p) ==
    /\ phase[p] = "ready" /\ Idle(p)
    /\ OwnerDestroy[1] = "Peer.destroy"
    /\ group' = group \ {<<p, AddrOf(p)>>}
    /\ phase' = [phase EXCEPT ![p] = "unregistering"]
    /\ stack' = [stack EXCEPT ![p] =
                    << Frame("destroy", p, "unregister", FALSE, << >>, << >>),
                       Frame("unregister", NameService, "check", TRUE,
                             << >>, <<group'>>) >>]
    /\ UNCHANGED <<next_id, listening, peers, lockVars, mutex>>

\* NameServer._check_alive for one peer of the copy (any order), lines 125-133:
\* a peer that does not answer as expected is removed; group.remove of a peer
\* that is in the group no more is a KeyError, and unregister() then answers
\* nothing.  After the last peer unregister() returns.
NsCheckAlive(r) ==
    /\ At(r, "unregister", "check")
    /\ LET fr == Top(r)
           rest == fr.l[1]
       IN  IF rest = {}
           THEN /\ stack' = [stack EXCEPT ![r] = Returned(@, "ok")]
                /\ UNCHANGED group
           ELSE \E t \in rest :
                IF Alive(t)
                THEN /\ stack' = [stack EXCEPT
                           ![r] = SetTop(@, [fr EXCEPT !.l = <<rest \ {t}>>])]
                     /\ UNCHANGED group
                ELSE IF t \in group
                THEN /\ group' = group \ {t}
                     /\ stack' = [stack EXCEPT
                           ![r] = SetTop(@, [fr EXCEPT !.l = <<rest \ {t}>>])]
                ELSE /\ stack' = [stack EXCEPT ![r] = Returned(@, "KeyError")]
                     /\ UNCHANGED group
    /\ UNCHANGED <<next_id, lifeVars, peers, lockVars, mutex>>

\* Peer.destroy returns, or raises what the call raised
PeerDestroyReturn(p) ==
    /\ At(p, "destroy", "unregister")
    /\ Top(p).ret # ""
    /\ stack' = [stack EXCEPT ![p] = Returned(@, Top(p).ret)]
    /\ phase' = [phase EXCEPT ![p] =
                    IF Top(p).ret = "ok" THEN "unregistered" ELSE "failed"]
    /\ UNCHANGED <<nsVars, listening, peers, lockVars, mutex>>

\* ---------------------------------------------------- DistributedLock.destroy
\* lines 60-65: with the mutex held, release() is called when the token is
\* here; release() does something only in TOKEN_HELD (line 129)
LockDestroy(p) ==
    /\ phase[p] = "unregistered"
    /\ OwnerDestroy[2] = "DistributedLock.destroy"
    /\ CanLock(p, <<p, 1>>)
    /\ LET fr == Frame("lock_destroy", p, "release", FALSE, << >>, << >>)
       IN  IF state[p] = TOKEN_HELD
           THEN /\ mutex' = Lock(p, <<p, 1>>)
                /\ stack' = [stack EXCEPT ![p] =
                       << fr, Frame("release", p, "scan", FALSE,
                                    << >>, << >>) >>]
                /\ phase' = [phase EXCEPT ![p] = "lock_destroying"]
           ELSE /\ stack' = [stack EXCEPT ![p] = << >>]
                /\ phase' = [phase EXCEPT ![p] = "lock_destroyed"]
                /\ UNCHANGED mutex
    /\ UNCHANGED <<nsVars, listening, peers, lockVars>>

\* lines 64-65: release() is back, the finally releases the mutex
LockDestroyReturn(p) ==
    /\ At(p, "lock_destroy", "release")
    /\ Top(p).ret # ""
    /\ mutex' = Unlock(p)
    /\ stack' = [stack EXCEPT ![p] = Returned(@, Top(p).ret)]
    /\ phase' = [phase EXCEPT ![p] =
                    IF Top(p).ret = "ok" THEN "lock_destroyed" ELSE "failed"]
    /\ UNCHANGED <<nsVars, listening, peers, lockVars>>

\* ------------------------------------------------------------ PeerList.destroy
\* lines 67-71: the mutex is taken for the whole loop over the keys
PeerListDestroy(p) ==
    /\ phase[p] = "lock_destroyed"
    /\ OwnerDestroy[3] = "PeerList.destroy"
    /\ CanLock(p, <<p, 1>>)
    /\ mutex' = Lock(p, <<p, 1>>)
    /\ stack' = [stack EXCEPT ![p] =
                    << Frame("pl_destroy", p, "loop", FALSE, << >>,
                             <<1>>) >>]
    /\ phase' = [phase EXCEPT ![p] = "leaving"]
    /\ UNCHANGED <<nsVars, listening, peers, lockVars>>

\* lines 71-75: one turn of the loop: unregister_peer is called on a peer that
\* is not this one, the mutex held; an exception ends the loop, and the
\* finally releases the mutex
PeerListDestroyLoop(p) ==
    /\ At(p, "pl_destroy", "loop")
    /\ LET fr == Top(p)
           i == fr.l[1]
           tbl == peers[p]
       IN  IF fr.ret \notin {"", "ok"}
           THEN /\ stack' = [stack EXCEPT ![p] = Returned(@, fr.ret)]
                /\ phase' = [phase EXCEPT ![p] = "failed"]
                /\ mutex' = Unlock(p)
           ELSE IF i > Len(tbl)
           THEN /\ stack' = [stack EXCEPT ![p] = Returned(@, "ok")]
                /\ phase' = [phase EXCEPT ![p] = "left"]
                /\ mutex' = Unlock(p)
           ELSE IF tbl[i][1] = Id(p)
           THEN /\ stack' = [stack EXCEPT
                      ![p] = SetTop(@, [fr EXCEPT !.l = <<i + 1>>])]
                /\ UNCHANGED <<phase, mutex>>
           ELSE /\ stack' = [stack EXCEPT
                      ![p] = Invoke(@, [fr EXCEPT !.l = <<i + 1>>],
                               Frame("unregister_peer", ProcAt(tbl[i][2]),
                                     "start", TRUE, <<Id(p)>>, << >>))]
                /\ UNCHANGED <<phase, mutex>>
    /\ UNCHANGED <<nsVars, listening, peers, lockVars>>

\* PeerList.unregister_peer, lines 94-102, as the first part of the owner's
\* unregister_peer
UnregisterPeer(r) ==
    /\ At(r, "unregister_peer", "start")
    /\ OwnerDispatch("unregister_peer")[1] = "PeerList"
    /\ LET fr == Top(r)
           q == fr.at
           pid == fr.a[1]
       IN  /\ CanLock(q, Thread(r))
           /\ IF pid \in Keys(peers[q])
              THEN /\ peers' = [peers EXCEPT ![q] = TableDel(@, pid)]
                   /\ stack' = [stack EXCEPT
                         ![r] = SetTop(@, [fr EXCEPT !.pc = "lock"])]
              ELSE /\ stack' = [stack EXCEPT ![r] = Returned(@, "Exception")]
                   /\ UNCHANGED peers
    /\ UNCHANGED <<nsVars, lifeVars, lockVars, mutex>>

\* DistributedLock.unregister_peer, lines 77-83
LockUnregisterPeer(r) ==
    /\ At(r, "unregister_peer", "lock")
    /\ OwnerDispatch("unregister_peer")[2] = "DistributedLock"
    /\ LET fr == Top(r)
           q == fr.at
           pid == fr.a[1]
           holds == state[q] \in {TOKEN_HELD, TOKEN_PRESENT}
       IN  /\ CanLock(q, Thread(r))
           /\ IF pid \notin DOMAIN request[q]
              THEN /\ stack' = [stack EXCEPT ![r] = Returned(@, "KeyError")]
                   /\ UNCHANGED <<request, token>>
              ELSE /\ request' = [request EXCEPT ![q] = Del(@, pid)]
                   /\ IF holds /\ pid \notin DOMAIN token[q]
                      THEN /\ stack' = [stack EXCEPT
                                 ![r] = Returned(@, "KeyError")]
                           /\ UNCHANGED token
                      ELSE /\ token' = [token EXCEPT ![q] =
                                  IF holds THEN Del(@, pid) ELSE @]
                           /\ stack' = [stack EXCEPT ![r] = Returned(@, "ok")]
    /\ UNCHANGED <<nsVars, lifeVars, peers, state, time, mutex>>

\* the process ends once the owner was destroyed and its workers are done;
\* nothing of its memory remains
Exit(p) ==
    /\ phase[p] = "left"
    /\ \A f \in FrameIds : FrameOf(f).pc = "done" \/ FrameOf(f).at # p
    /\ phase' = [phase EXCEPT ![p] = "gone"]
    /\ listening' = [listening EXCEPT ![p] = FALSE]
    /\ peers' = [peers EXCEPT ![p] = << >>]
    /\ state' = [state EXCEPT ![p] = NO_TOKEN]
    /\ time' = [time EXCEPT ![p] = 0]
    /\ token' = [token EXCEPT ![p] = EmptyDict]
    /\ request' = [request EXCEPT ![p] = EmptyDict]
    /\ stack' = [stack EXCEPT ![p] = << >>]
    /\ UNCHANGED <<nsVars, mutex>>

\* ------------------------------------------------------------ a joined group
\* The group after its processes have started one after the other, each
\* running Peer.start, PeerList.initialize and DistributedLock.initialize
\* before the next starts: every table holds every id (its own too), process
\* 0 is the idle holder, a non-holder's token map is the one initialize() left.
Ids(n) == 0 .. (n - 1)

Zeros(S) == [k \in S |-> 0]

RECURSIVE FullTable(_)
FullTable(n) == IF n = 0 THEN << >>
                ELSE Append(FullTable(n - 1), <<n - 1, AddrOf(n - 1)>>)

InitGroup(n) ==
    /\ next_id = n
    /\ group = {<<p, AddrOf(p)>> : p \in Ids(n)}
    /\ phase = [r \in Roots |-> IF r \in Ids(n) THEN "ready" ELSE "none"]
    /\ listening = [r \in Roots |-> r \in Ids(n)]
    /\ peers = [p \in Procs |-> IF p \in Ids(n) THEN FullTable(n) ELSE << >>]
    /\ state = [p \in Procs |-> IF p = 0 THEN TOKEN_PRESENT ELSE NO_TOKEN]
    /\ time = [p \in Procs |-> 0]
    /\ token = [p \in Procs |-> IF p = 0 THEN Zeros(Ids(n))
                                ELSE IF p \in Ids(n) THEN Zeros(Ids(p + 1))
                                ELSE EmptyDict]
    /\ request = [p \in Procs |-> IF p \in Ids(n) THEN Zeros(Ids(n))
                                  ELSE EmptyDict]
    /\ mutex = [p \in Procs |-> Free]
    /\ stack = [r \in Roots |-> << >>]

Init == InitGroup(GroupSize)

Next ==
    \/ \E p \in Procs : Acquire(p)
    \/ \E p \in Procs : AcquireBroadcast(p)
    \/ \E p \in Procs : AcquireWait(p)
    \/ \E p \in Procs : Release(p)
    \/ \E r \in Roots : ReleaseScan(r)
    \/ \E r \in Roots : ReleaseSent(r)
    \/ \E r \in Roots : RequestToken(r)
    \/ \E r \in Roots : RequestTokenSent(r)
    \/ \E r \in Roots : ObtainToken(r)

Spec == Init /\ [][Next]_vars

\* ------------------------------------------------------------- an open mesh
\* The Skeleton serves any connection and Request.process_request calls the
\* named method with the arguments of the request line (orb.py:84-92, 183-188):
\* a client outside the group, or a repeated request, reaches the handler too.
ExternalRequestToken(q, t, pid) ==
    /\ Idle(External)
    /\ listening[q]
    /\ stack' = [stack EXCEPT ![External] =
                    << Frame("request_token", q, "start", TRUE,
                             <<t, pid>>, << >>) >>]
    /\ UNCHANGED <<nsVars, lifeVars, peers, lockVars, mutex>>

NextOpen ==
    \/ Next
    \/ \E q \in Procs : \E t \in 0 .. MaxTime : \E pid \in Ids(GroupSize) :
           ExternalRequestToken(q, t, pid)

SpecOpen == Init /\ [][NextOpen]_vars

\* ------------------------------------------------- peers that come and go
\* No process has started; the name server is up.
InitLife ==
    /\ next_id = 0
    /\ group = {}
    /\ phase = [r \in Roots |-> "none"]
    /\ listening = [r \in Roots |-> FALSE]
    /\ peers = [p \in Procs |-> << >>]
    /\ state = [p \in Procs |-> NO_TOKEN]
    /\ time = [p \in Procs |-> 0]
    /\ token = [p \in Procs |-> EmptyDict]
    /\ request = [p \in Procs |-> EmptyDict]
    /\ mutex = [p \in Procs |-> Free]
    /\ stack = [r \in Roots |-> << >>]

\* Processes start and leave; no application asks for the critical section.
NextLife ==
    \/ \E p \in Procs : PeerStart(p)
    \/ \E p \in Procs : SkeletonRun(p)
    \/ \E p \in Procs : NsRegisterAdd(p)
    \/ \E p \in Procs : RegisterReturn(p)
    \/ \E p \in Procs : PeerListInitialize(p)
    \/ \E p \in Procs : PeerListInitializeLoop(p)
    \/ \E r \in Roots : RegisterPeer(r)
    \/ \E r \in Roots : LockRegisterPeer(r)
    \/ \E p \in Procs : LockInitialize(p)
    \/ \E p \in Procs : PeerDestroy(p)
    \/ \E r \in Roots : NsCheckAlive(r)
    \/ \E p \in Procs : PeerDestroyReturn(p)
    \/ \E p \in Procs : LockDestroy(p)
    \/ \E p \in Procs : PeerListDestroy(p)
    \/ \E p \in Procs : PeerListDestroyLoop(p)
    \/ \E r \in Roots : UnregisterPeer(r)
    \/ \E r \in Roots : LockUnregisterPeer(r)
    \/ \E p \in Procs : Exit(p)

SpecLife == InitLife /\ [][NextLife]_vars

\* ------------------------------------------------------- a group that is left
\* The peers of a joined group ask for the critical section, release it, and
\* leave.
AcquireLife(p) ==
    /\ time[p] < LifeTime
    /\ AcquireOn(p, time, token, request, stack)

NextLeave ==
    \/ \E p \in Procs : AcquireLife(p)
    \/ \E p \in Procs : AcquireBroadcast(p)
    \/ \E p \in Procs : AcquireWait(p)
    \/ \E p \in Procs : Release(p)
    \/ \E r \in Roots : ReleaseScan(r)
    \/ \E r \in Roots : ReleaseSent(r)
    \/ \E r \in Roots : RequestToken(r)
    \/ \E r \in Roots : RequestTokenSent(r)
    \/ \E r \in Roots : ObtainToken(r)
    \/ \E p \in Procs : PeerDestroy(p)
    \/ \E r \in Roots : NsCheckAlive(r)
    \/ \E p \in Procs : PeerDestroyReturn(p)
    \/ \E p \in Procs : LockDestroy(p)
    \/ \E p \in Procs : LockDestroyReturn(p)
    \/ \E p \in Procs : PeerListDestroy(p)
    \/ \E p \in Procs : PeerListDestroyLoop(p)
    \/ \E r \in Roots : UnregisterPeer(r)
    \/ \E r \in Roots : LockUnregisterPeer(r)
    \/ \E p \in Procs : Exit(p)

SpecLeave == Init /\ [][NextLeave]_vars

\* ------------------------------------------------------------ the whole mesh
\* Processes start, ask for the critical section, release it, and leave.
NextMesh ==
    \/ NextLife
    \/ \E p \in Procs : Acquire(p)
    \/ \E p \in Procs : AcquireBroadcast(p)
    \/ \E p \in Procs : AcquireWait(p)
    \/ \E p \in Procs : Release(p)
    \/ \E r \in Roots : ReleaseScan(r)
    \/ \E r \in Roots : ReleaseSent(r)
    \/ \E r \in Roots : RequestToken(r)
    \/ \E r \in Roots : RequestTokenSent(r)
    \/ \E r \in Roots : ObtainToken(r)
    \/ \E p \in Procs : LockDestroyReturn(p)

SpecMesh == InitLife /\ [][NextMesh]_vars

\* --------------------------------------------------- a group with casualties
\* The process is ended from outside without destroy(): its Skeleton and its
\* workers are daemon threads (orb.py:82, 173) and end with it, so it accepts
\* no connection any more; the name server and the other peers still list it.
Stop(p) ==
    /\ phase[p] = "ready" /\ Idle(p)
    /\ \A f \in FrameIds : FrameOf(f).pc = "done" \/ FrameOf(f).at # p
    /\ mutex[p] = Free
    /\ phase' = [phase EXCEPT ![p] = "gone"]
    /\ listening' = [listening EXCEPT ![p] = FALSE]
    /\ peers' = [peers EXCEPT ![p] = << >>]
    /\ state' = [state EXCEPT ![p] = NO_TOKEN]
    /\ time' = [time EXCEPT ![p] = 0]
    /\ token' = [token EXCEPT ![p] = EmptyDict]
    /\ request' = [request EXCEPT ![p] = EmptyDict]
    /\ stack' = [stack EXCEPT ![p] = << >>]
    /\ UNCHANGED <<nsVars, mutex>>

\* unregister_peer(pid) arrives from a client outside the group (the Skeleton
\* serves any connection, orb.py:183-188)
ExternalUnregisterPeer(q, pid) ==
    /\ Idle(External)
    /\ listening[q]
    /\ stack' = [stack EXCEPT ![External] =
                    << Frame("unregister_peer", q, "start", TRUE,
                             <<pid>>, << >>) >>]
    /\ UNCHANGED <<nsVars, lifeVars, peers, lockVars, mutex>>

InitQuit == InitGroup(FairSize)

\* The peers of a joined group leave, by destroy() or by being stopped, and a
\* client that is in no table asks to be unregistered.
NextQuit ==
    \/ \E p \in Procs : PeerDestroy(p)
    \/ \E r \in Roots : NsCheckAlive(r)
    \/ \E p \in Procs : PeerDestroyReturn(p)
    \/ \E p \in Procs : LockDestroy(p)
    \/ \E p \in Procs : PeerListDestroy(p)
    \/ \E p \in Procs : PeerListDestroyLoop(p)
    \/ \E r \in Roots : UnregisterPeer(r)
    \/ \E r \in Roots : LockUnregisterPeer(r)
    \/ \E p \in Procs : Exit(p)
    \/ \E p \in Procs : Stop(p)
    \/ \E q \in Procs : ExternalUnregisterPeer(q, External)

SpecQuit == InitQuit /\ [][NextQuit]_vars

\* ------------------------------------------------------- one line each way
\* A request line as Request.run reads it (orb.py:104): nothing at all, text
\* that is no JSON, or a JSON object; of an object, the keys it has, whether
\* its method is one the owner has, and what that method does when called.
RequestLines ==
    [kind : {"empty", "malformed"}, keys : {{}}, resolves : {FALSE},
     outcome : {"ok"}]
    \cup [kind : {"object"}, keys : SUBSET {"method", "args", "id"},
          resolves : BOOLEAN,
          outcome : {"ok", "OSError", "KeyError", "Exception"}]

\* A response line as Stub._rmi reads it (orb.py:137): of an object, the keys
\* it has and, under "error", whether there is a name and how many args.
ResponseLines ==
    [kind : {"empty", "malformed"}, keys : {{}}, named : {TRUE},
     nargs : {0}]
    \cup [kind : {"object"}, keys : SUBSET {"result", "error", "id"},
          named : BOOLEAN, nargs : 0 .. MaxArgs]

\* json_dumps_result
ResultLine == [kind |-> "object", keys |-> {"result"}, named |-> TRUE,
               nargs |-> 0]

\* json_dumps_error: the name of the class and the args of the exception
ErrorLine(n) == [kind |-> "object", keys |-> {"error"}, named |-> TRUE,
                 nargs |-> n]

\* handle_JSONDecodeError: either way a ProtocolError is raised
HandleJSONDecodeError(kind) == "ProtocolError"

\* Request.process_request, lines 85-97: the line it returns, or the
\* exception that leaves it; n is the number of args of a raised OSError
ProcessRequest(req, n) ==
    IF req.kind # "object"
    THEN <<"raise", HandleJSONDecodeError(req.kind)>>
    ELSE IF ~({"method", "args"} \subseteq req.keys)
    THEN <<"raise", "ProtocolError">>
    ELSE IF ~req.resolves THEN <<"raise", "AttributeError">>
    ELSE IF req.outcome = "ok" THEN <<"return", ResultLine>>
    ELSE IF req.outcome = "OSError" THEN <<"return", ErrorLine(n)>>
    ELSE <<"raise", req.outcome>>

\* throw_ExternalError, lines 48-51: the name is looked up, then args[0]
ThrowExternalError(resp) ==
    IF ~resp.named THEN "KeyError"
    ELSE IF resp.nargs = 0 THEN "IndexError"
    ELSE "ExternalError"

\* Stub._rmi, lines 140-151: "return", or the exception raised
Rmi(resp) ==
    IF resp.kind # "object" THEN HandleJSONDecodeError(resp.kind)
    ELSE IF resp.keys # {"error"} /\ resp.keys # {"result"}
    THEN "ProtocolError"
    ELSE IF "error" \in resp.keys THEN ThrowExternalError(resp)
    ELSE "return"

\* Request.run, lines 100-113: the line is written when process_request
\* returned one; an exception ends the thread with nothing written
RequestRun(r) ==
    /\ At(r, "serve", "read")
    /\ \E n \in 0 .. MaxArgs :
         LET out == ProcessRequest(Top(r).a[1], n)
         IN  stack' = [stack EXCEPT ![r] =
                 << [Top(r) EXCEPT
                       !.pc = "done",
                       !.l = IF out[1] = "return" THEN <<out[2]>> ELSE << >>,
                       !.ret = IF out[1] = "return" THEN "ok" ELSE out[2]] >>]
    /\ UNCHANGED <<nsVars, lifeVars, peers, lockVars, mutex>>

\* Stub._rmi once the answer has been read
RmiAnswer(r) ==
    /\ At(r, "_rmi", "answer")
    /\ stack' = [stack EXCEPT ![r] =
            << [Top(r) EXCEPT !.pc = "done", !.ret = Rmi(Top(r).a[1])] >>]
    /\ UNCHANGED <<nsVars, lifeVars, peers, lockVars, mutex>>

\* A worker of peer 0 that has read any request line, or a stub that has read
\* any response line.
InitWire ==
    \E fr \in {Frame("serve", 0, "read", TRUE, <<req>>, << >>) :
                  req \in RequestLines}
              \cup {Frame("_rmi", External, "answer", FALSE, <<resp>>, << >>) :
                       resp \in ResponseLines} :
        /\ next_id = GroupSize
        /\ group = {<<p, AddrOf(p)>> : p \in Ids(GroupSize)}
        /\ phase = [r \in Roots |->
                      IF r \in Ids(GroupSize) THEN "ready" ELSE "none"]
        /\ listening = [r \in Roots |-> r \in Ids(GroupSize)]
        /\ peers = [p \in Procs |-> IF p \in Ids(GroupSize)
                                    THEN FullTable(GroupSize) ELSE << >>]
        /\ state = [p \in Procs |-> IF p = 0 THEN TOKEN_PRESENT ELSE NO_TOKEN]
        /\ time = [p \in Procs |-> 0]
        /\ token = [p \in Procs |-> IF p = 0 THEN Zeros(Ids(GroupSize))
                                    ELSE IF p \in Ids(GroupSize)
                                    THEN Zeros(Ids(p + 1)) ELSE EmptyDict]
        /\ request = [p \in Procs |-> IF p \in Ids(GroupSize)
                                      THEN Zeros(Ids(GroupSize))
                                      ELSE EmptyDict]
        /\ mutex = [p \in Procs |-> Free]
        /\ stack = [r \in Roots |-> IF r = External THEN <<fr>> ELSE << >>]

NextWire ==
    \/ \E r \in Roots : RequestRun(r)
    \/ \E r \in Roots : RmiAnswer(r)

SpecWire == InitWire /\ [][NextWire]_vars

\* ---------------------------------------------------- acquiring without end
\* A clock value enters the protocol only through the comparisons of lines
\* 134, 155 and 168, each between two values recorded for the same peer, and
\* through time + 1 (line 100), which exceeds every value recorded for that
\* peer.  Renaming the values recorded for p by their rank keeps every such
\* comparison, so a run in which peers acquire again and again stays within
\* finitely many states.
ClockValues(p) ==
    {time[p]}
    \cup {token[q][p] : q \in {x \in Procs : p \in DOMAIN token[x]}}
    \cup {request[q][p] : q \in {x \in Procs : p \in DOMAIN request[x]}}
    \cup {FrameOf(f).a[1] : f \in {g \in FrameIds :
              FrameOf(g).op = "request_token" /\ FrameOf(g).pc # "done"
              /\ FrameOf(g).a[2] = p}}
    \cup UNION {{pr[2] : pr \in {x \in FrameOf(f).a[1] : x[1] = p}} :
              f \in {g \in FrameIds : FrameOf(g).op = "obtain_token"
                                      /\ FrameOf(g).pc # "done"}}

Rank(p, v) == Cardinality({u \in ClockValues(p) : u < v})

RankDict(p, d) == [k \in DOMAIN d |-> IF k = p THEN Rank(p, d[k]) ELSE d[k]]

RankFrame(p, fr) ==
    IF fr.pc = "done" THEN fr
    ELSE IF fr.op = "request_token" /\ fr.a[2] = p
    THEN [fr EXCEPT !.a = <<Rank(p, fr.a[1]), p>>]
    ELSE IF fr.op = "obtain_token"
    THEN [fr EXCEPT !.a = <<{<<pr[1], IF pr[1] = p THEN Rank(p, pr[2])
                                       ELSE pr[2]>> : pr \in fr.a[1]}>>]
    ELSE fr

\* acquire() of an application that asks for the critical section only when
\* it is not in it
AcquireFair(p) ==
    /\ state[p] # TOKEN_HELD
    /\ AcquireOn(p,
                 [time EXCEPT ![p] = Rank(p, @)],
                 [q \in Procs |-> RankDict(p, token[q])],
                 [q \in Procs |-> RankDict(p, request[q])],
                 [r \in Roots |->
                     [i \in 1 .. Len(stack[r]) |-> RankFrame(p, stack[r][i])]])

\* release() of an application that is in the critical section
ReleaseHeld(p) == state[p] = TOKEN_HELD /\ Release(p)

InitFair == InitGroup(FairSize)

NextFair ==
    \/ \E p \in Procs : AcquireFair(p)
    \/ \E p \in Procs : AcquireBroadcast(p)
    \/ \E p \in Procs : AcquireWait(p)
    \/ \E p \in Procs : ReleaseHeld(p)
    \/ \E r \in Roots : ReleaseScan(r)
    \/ \E r \in Roots : ReleaseSent(r)
    \/ \E r \in Roots : RequestToken(r)
    \/ \E r \in Roots : RequestTokenSent(r)
    \/ \E r \in Roots : ObtainToken(r)

\* The joined group of FairSize peers, each calling acquire() while its clock
\* is below MaxTime.
SpecThree == InitFair /\ [][Next]_vars

\* ------------------------------------------- a mesh whose processes are ended
\* The joined group of three asks for the critical section and releases it,
\* and any of its processes may be ended from outside.
NextCrash ==
    \/ Next
    \/ \E p \in Procs : Stop(p)

SpecCrash == InitFair /\ [][NextCrash]_vars

\* The step a root's thread can take: the root's top frame fixes which of these
\* it is, so at most one of them is enabled for a root in any state.
ThreadStep(r) ==
    \/ AcquireBroadcast(r) \/ AcquireWait(r) \/ ReleaseHeld(r)
    \/ ReleaseScan(r) \/ ReleaseSent(r)
    \/ RequestToken(r) \/ RequestTokenSent(r) \/ ObtainToken(r)

\* The joined group of SpecThree in which every thread that can run does run
\* and a peer in the critical section calls release().
SpecLive == InitFair /\ [][Next]_vars /\ \A r \in Procs : WF_vars(ThreadStep(r))

\* the peer has sent its request to every peer and spins in acquire()
Waiting(p) == At(p, "acquire", "wait")

\* no call of another peer is under way: every thread but p's has finished
QuietBut(p) == \A r \in Roots \ {p} : Idle(r)

Last == FairSize - 1

\* Every thread that can run does run, a peer in the critical section calls
\* release(), and the calls of the peers other than the last complete again
\* and again (none of their threads is held up for ever).  Nothing makes an
\* application call acquire().
Fairness ==
    /\ \A r \in Procs : WF_vars(ThreadStep(r))
    /\ []<>QuietBut(Last)

SpecFair == InitFair /\ [][NextFair]_vars /\ Fairness

\* --------------------------------------------------------------- properties
Holding(p) == state[p] \in {TOKEN_PRESENT, TOKEN_HELD}

\* an obtain_token call that was sent and is not handled yet
TokensInFlight ==
    {f \in FrameIds : FrameOf(f).op = "obtain_token" /\ FrameOf(f).pc = "start"}

\* a request_token handler of p has called obtain_token, the call has not
\* failed, and the handler has not yet set NO_TOKEN (distributedLock.py:158-160)
HandingOver(p) ==
    \E f \in FrameIds :
        /\ FrameOf(f).op = "request_token" /\ FrameOf(f).pc = "sent"
        /\ FrameOf(f).at = p /\ FrameOf(f).ret \in {"", "ok"}

Possessors == {p \in Procs : Holding(p) /\ ~HandingOver(p)}

\* C1: no two different peers are in TOKEN_HELD at the same time.
MutualExclusion ==
    \A p \in Procs : \A q \in Procs :
        (state[p] = TOKEN_HELD /\ state[q] = TOKEN_HELD) => p = q

\* C1 witness: a peer other than the initial holder is in TOKEN_HELD while
\* another peer waits in acquire() for the token.
MutualExclusionWitness ==
    \E p \in Procs : \E q \in Procs :
        /\ p # q /\ p # 0
        /\ state[p] = TOKEN_HELD
        /\ At(q, "acquire", "wait")

OwnEntry(p) == IF p \in DOMAIN token[p] THEN token[p][p] ELSE -1

MaxOwnEntry == CHOOSE m \in {OwnEntry(p) : p \in Procs} :
                   \A q \in Procs : OwnEntry(q) <= m

\* C3 as claimed: exactly one peer is in TOKEN_PRESENT or TOKEN_HELD, and
\* exactly one peer's token[self] is the maximum of all peers' token[self].
TokenConservationClaimed ==
    /\ Cardinality({p \in Procs : Holding(p)}) = 1
    /\ Cardinality({p \in Procs : OwnEntry(p) = MaxOwnEntry}) = 1

\* C3 amended: the token is in exactly one place, a peer that holds it (in
\* TOKEN_PRESENT or TOKEN_HELD and not inside a request_token handler that
\* has called obtain_token) or an obtain_token call in flight;
\* and no peer's token map records, for any peer, a later time than the map
\* of the token's place does.
TokenConservation ==
    /\ Cardinality(Possessors) + Cardinality(TokensInFlight) = 1
    /\ \A h \in Possessors : \A p \in Procs :
           \A k \in DOMAIN token[p] :
               k \in DOMAIN token[h] /\ token[p][k] <= token[h][k]
    /\ \A f \in TokensInFlight : \A p \in Procs :
           \A k \in DOMAIN token[p] :
               LET tok == Unprepare(FrameOf(f).a[1])
               IN  k \in DOMAIN tok /\ token[p][k] <= tok[k]

\* C3 witness: the token has left the initial holder and is held by a peer
\* whose own entry was stamped, while the sender's stale map remains.
TokenConservationWitness ==
    \E p \in Procs :
        /\ p # 0 /\ state[p] = TOKEN_HELD /\ state[0] = NO_TOKEN
        /\ token[p][p] > 0 /\ token[0] # EmptyDict

\* C8 as claimed: a thread inside an outbound remote call does not hold its
\* own peer's mutex.
NoRpcUnderMutex ==
    \A f \in FrameIds :
        (~IsTop(f) /\ stack[f[1]][f[2] + 1].rpc)
            => mutex[FrameOf(f).at].owner # ThreadOf(f[1], f[2])

\* C7 as claimed: a request_token(t, pid) handler that has called obtain_token
\* was handling a timestamp strictly greater than token[pid].
ConditionalForwarding ==
    \A f \in FrameIds :
        (FrameOf(f).op = "request_token" /\ FrameOf(f).pc = "sent")
            => LET q == FrameOf(f).at
                   t == FrameOf(f).a[1]
                   pid == FrameOf(f).a[2]
               IN  pid \in DOMAIN token[q] /\ t > token[q][pid]

\* the peers a peer knows at startup: itself and its Membership Table
Known(p) == Keys(peers[p]) \cup {p}

Smallest(p) == \A k \in Known(p) : p <= k

HasZeros(d, S) == \A k \in S : k \in DOMAIN d /\ d[k] = 0

\* what C4 says of a peer on which initialize() has run
Assigned(p) ==
    /\ phase[p] = "ready"
    /\ IF Smallest(p)
       THEN state[p] = TOKEN_PRESENT /\ token[p] = Put(EmptyDict, p, 0)
       ELSE /\ state[p] = NO_TOKEN
            /\ HasZeros(token[p], Known(p))
            /\ HasZeros(request[p], Known(p))

\* C4 as claimed: when DistributedLock.initialize() has run on a peer, the
\* peer is in TOKEN_PRESENT with token = {self: 0} if its id is the smallest
\* among itself and the ids of its Membership Table, and otherwise in NO_TOKEN
\* with a 0 entry for itself and every peer of the table in token and request;
\* also when its own id is not in the table, and when the table is empty.
InitialTokenAssignment ==
    [][\A p \in Procs : LockInitialize(p) => Assigned(p)']_vars

\* C5 as claimed: once initialize() has run and no call is under way, a
\* peer's request map has an entry for its own id and every id of its
\* Membership Table, and so has its token map while the peer is in
\* TOKEN_PRESENT or TOKEN_HELD.
MapCompleteness ==
    \A p \in Procs :
        (phase[p] = "ready" /\ \A r \in Roots : Idle(r))
            => /\ Known(p) \subseteq DOMAIN request[p]
               /\ Holding(p) => Known(p) \subseteq DOMAIN token[p]

\* DistributedLock.destroy() of p returns in this step
LockDestroyReturns(p) ==
    /\ LockDestroy(p) \/ LockDestroyReturn(p)
    /\ phase'[p] = "lock_destroyed"

\* C6 as claimed: when destroy() of the lock returns, having been called in
\* TOKEN_PRESENT or TOKEN_HELD on a peer whose Membership Table holds another
\* peer that is reachable, the peer is in NO_TOKEN and another peer is in
\* TOKEN_PRESENT or TOKEN_HELD.
DestroyKeepsToken ==
    [][\A p \in Procs :
          ( /\ LockDestroyReturns(p)
            /\ state[p] = TOKEN_PRESENT \/ phase[p] = "lock_destroying"
            /\ \E k \in Keys(peers[p]) \ {p} : listening[k] )
          => ( /\ state'[p] = NO_TOKEN
               /\ \E q \in Procs \ {p} :
                      state'[q] \in {TOKEN_PRESENT, TOKEN_HELD} )]_vars

\* C9 as claimed: a peer's Membership Table has no entry for the peer's own
\* id.
OwnIdExcluded == \A p \in Procs : p \notin Keys(peers[p])

\* PeerList.initialize() of p returns without error in this step
InitializeReturns(p) ==
    /\ PeerListInitializeLoop(p)
    /\ phase'[p] = "joined"

\* the ids get_peers returned to the initialize() of p that is under way
ReturnedIds(p) == {t[1] : t \in stack[p][1].a[1]}

InTable(q, pid, paddr) ==
    \E i \in 1 .. Len(peers[q]) : peers[q][i] = <<pid, paddr>>

\* a peer that has called PeerList.destroy()
Leaving(q) == phase[q] \in {"leaving", "left", "gone", "failed"}

\* a peer that has called PeerList.initialize()
Joining(q) == phase[q] \notin {"none", "assigned", "added", "registered"}

SnapshotIsolation ==
    [][\A p \in Procs :
          (At(p, "acquire", "bcast") /\ At(p, "acquire", "bcast")')
              => Keys(peers'[p]) = Keys(peers[p])]_vars

\* PeerList.destroy() of p ends in this step, by returning or by raising
PeerListDestroyEnds(p) ==
    /\ PeerListDestroyLoop(p)
    /\ phase'[p] \in {"left", "failed"}

\* C12 as claimed: when PeerList.destroy() of p ends, the loop has gone
\* through every entry of p's table, so every peer of the table has been sent
\* unregister_peer, also after a call to one of them failed.
BestEffortLeave ==
    [][\A p \in Procs :
          PeerListDestroyEnds(p) => Top(p).l[1] > Len(peers[p])]_vars

\* C13 as claimed: PeerList.unregister_peer(pid) removes exactly the entry of
\* pid when there is one; when there is none the table is unchanged and the
\* remote caller is answered with an error response, which its stub raises
\* as the external failure.
UnknownPeerOnLeave ==
    [][\A r \in Roots : UnregisterPeer(r) =>
          LET q == Top(r).at
              pid == Top(r).a[1]
          IN  IF pid \in Keys(peers[q])
              THEN /\ Keys(peers'[q]) = Keys(peers[q]) \ {pid}
                   /\ \A k \in Keys(peers'[q]) :
                          StubOf(peers'[q], k) = StubOf(peers[q], k)
              ELSE /\ peers'[q] = peers[q]
                   /\ stack'[r][Len(stack'[r])].ret = "ExternalError"]_vars

\* a request that names a method of the owner which returns
GoodRequest(req) ==
    /\ req.kind = "object" /\ {"method", "args"} \subseteq req.keys
    /\ req.resolves /\ req.outcome = "ok"

\* C14 as claimed: a worker that has read a request line has written exactly
\* one response line and has ended without an exception; for a request that
\* is empty, malformed, without "method" or "args", whose method does not
\* resolve or whose method raises, that line is an error response.
ServerAlwaysAnswers ==
    \A r \in Roots :
        At(r, "serve", "done")
            => /\ Len(Top(r).l) = 1
               /\ Top(r).ret = "ok"
               /\ ~GoodRequest(Top(r).a[1])
                      => Top(r).l[1].keys = {"error"}

\* C15 as claimed: the stub returns a value exactly for a response object
\* whose keys are {result}, raises the external failure for one whose keys
\* are {error}, and raises the protocol failure for every other response
\* object and for an empty line.
ResponseClassification ==
    \A r \in Roots :
        At(r, "_rmi", "done")
            => LET resp == Top(r).a[1]
                   out == Top(r).ret
               IN  /\ out = "return"
                         <=> (resp.kind = "object" /\ resp.keys = {"result"})
                   /\ (resp.kind = "object" /\ resp.keys = {"error"})
                         => out = "ExternalError"
                   /\ (resp.kind = "empty" \/
                       (resp.kind = "object" /\ resp.keys # {"result"}
                                             /\ resp.keys # {"error"}))
                         => out = "ProtocolError"

\* C16: as long as the process of a peer lives, a step of acquire() up to its
\* broadcast raises the peer's time by exactly 1, from any state, and every
\* other step (of release, request_token, obtain_token, register_peer,
\* unregister_peer, initialize, destroy, or of another peer) leaves it as it
\* is; so it never decreases.
LogicalClock ==
    [][\A p \in Procs :
          phase'[p] # "gone" =>
              IF Acquire(p) THEN time'[p] = time[p] + 1
              ELSE time'[p] = time[p]]_vars

\* C16 witness: a peer has called acquire() twice and is in TOKEN_HELD with
\* time 2, and another peer has left and been unregistered at it.
LogicalClockWitness ==
    \E p \in Procs : \E q \in Procs :
        /\ time[p] = 2 /\ state[p] = TOKEN_HELD
        /\ phase[p] = "ready" /\ Idle(p)
        /\ p # q /\ phase[q] = "left" /\ q \notin Keys(peers[p])

\* C17 as claimed: a peer on which initialize() has run and that is in
\* NO_TOKEN has an empty token map.
TokenMapAbsent ==
    \A p \in Procs :
        (phase[p] = "ready" /\ state[p] = NO_TOKEN) => token[p] = EmptyDict

\* C17 amended: the token map of a peer on which initialize() has run is never
\* emptied: in NO_TOKEN too it has an entry for the peer itself (the zeros
\* initialize() wrote, or the map that was sent away), and that entry is not
\* later than the peer's clock.
TokenMapKept ==
    \A p \in Procs :
        phase[p] = "ready"
            => (p \in DOMAIN token[p] /\ token[p][p] <= time[p])

\* C17 witness: a peer has released the token to another peer and is in
\* NO_TOKEN with the map it sent, its own entry stamped.
TokenMapKeptWitness ==
    \E p \in Procs :
        /\ phase[p] = "ready" /\ state[p] = NO_TOKEN /\ Idle(p)
        /\ p \in DOMAIN token[p] /\ token[p][p] > 0

\* the frame a call chain has on top after the step
NewTop(r) == stack'[r][Len(stack'[r])]

\* C18: a request_token(t, pid) handler that runs at a peer in TOKEN_PRESENT
\* with t > token[pid] calls obtain_token on pid with the peer's whole token
\* map, and the peer is in NO_TOKEN when the handler ends; the obtain_token of
\* such a handler at a pid that is inside acquire() with time t leaves pid in
\* TOKEN_HELD with token[pid] = t.
IdleHolderForwards ==
    [][\A r \in Roots :
          /\ ( /\ At(r, "request_token", "start")
               /\ RequestToken(r)
               /\ state[Top(r).at] = TOKEN_PRESENT
               /\ Top(r).a[2] \in DOMAIN token[Top(r).at]
               /\ Top(r).a[1] > token[Top(r).at][Top(r).a[2]] )
             => ( /\ NewTop(r).op = "obtain_token"
                  /\ NewTop(r).at = Top(r).a[2]
                  /\ Unprepare(NewTop(r).a[1]) = token[Top(r).at] )
          /\ ( /\ At(r, "request_token", "sent")
               /\ RequestTokenSent(r)
               /\ Top(r).a[1] > token[Top(r).at][Top(r).a[2]] )
             => state'[Top(r).at] = NO_TOKEN
          /\ ( /\ At(r, "obtain_token", "start")
               /\ ObtainToken(r)
               /\ stack[r][Len(stack[r]) - 1].op = "request_token"
               /\ stack[Top(r).at] # << >>
               /\ stack[Top(r).at][1].op = "acquire"
               /\ stack[Top(r).at][1].pc # "done"
               /\ time[Top(r).at] = stack[r][Len(stack[r]) - 1].a[1] )
             => ( /\ state'[Top(r).at] = TOKEN_HELD
                  /\ token'[Top(r).at][Top(r).at] = time[Top(r).at] )]_vars

\* C18 witness: a request_token handler at an idle holder has had its
\* obtain_token answered, and the requester, still inside acquire(), is in
\* TOKEN_HELD with its own entry at the time it asked with.
IdleHolderForwardsWitness ==
    \E r \in Roots :
        /\ At(r, "request_token", "sent") /\ Top(r).ret = "ok"
        /\ Top(r).at # Top(r).a[2]
        /\ stack[Top(r).a[2]][1].op = "acquire"
        /\ state[Top(r).a[2]] = TOKEN_HELD
        /\ token[Top(r).a[2]][Top(r).a[2]] = Top(r).a[1]
        /\ Top(r).a[1] > token[Top(r).at][Top(r).a[2]]

\* the peers of q's table whose request is later than the token records
PendingAt(q) ==
    {k \in Keys(peers[q]) :
        /\ k \in DOMAIN request[q] /\ k \in DOMAIN token[q]
        /\ request[q][k] > token[q][k]}

ReleaseNothingPending ==
    [][\A r \in Roots :
          ( /\ At(r, "release", "scan")
            /\ ReleaseScan(r)
            /\ state[Top(r).at] = TOKEN_HELD
            /\ \A k \in Keys(peers[Top(r).at]) :
                   request[Top(r).at][k] <= token[Top(r).at][k] )
          => ( /\ state'[Top(r).at] = TOKEN_PRESENT
               /\ token' = token /\ request' = request /\ time' = time
               /\ Len(stack'[r]) <= Len(stack[r])
               /\ NewTop(r).op # "obtain_token"
               /\ NewTop(r).ret = "ok" )]_vars

\* C20 witness: a peer that acquired the token is in release() with nothing
\* pending at it.
ReleaseNothingPendingWitness ==
    \E r \in Roots :
        /\ At(r, "release", "scan")
        /\ state[Top(r).at] = TOKEN_HELD /\ time[Top(r).at] > 0
        /\ Top(r).at # 0
        /\ \A k \in Keys(peers[Top(r).at]) :
               request[Top(r).at][k] <= token[Top(r).at][k]

InAcquire(p) ==
    /\ stack[p] # << >>
    /\ stack[p][1].op = "acquire" /\ stack[p][1].pc \in {"bcast", "wait"}

\* C22: acquire() from NO_TOKEN calls request_token(time, self) on the peers
\* of the table one after the other, the i-th call on the i-th entry, and
\* starts to wait only when every entry has had its call; it returns only
\* with the peer in TOKEN_HELD; and an acquire() under way at a peer that is
\* in TOKEN_HELD returns.
AcquireFromNoToken ==
    /\ [][\A p \in Procs :
            /\ ( /\ At(p, "acquire", "bcast") /\ AcquireBroadcast(p)
                 /\ Top(p).l[1] <= Len(peers[p]) )
               => ( /\ Len(stack'[p]) = 2
                    /\ NewTop(p).op = "request_token"
                    /\ NewTop(p).a = <<time[p], p>>
                    /\ NewTop(p).at = peers[p][Top(p).l[1]][1]
                    /\ stack'[p][1].l[1] = Top(p).l[1] + 1 )
            /\ ( /\ At(p, "acquire", "bcast") /\ AcquireBroadcast(p)
                 /\ stack'[p][1].pc = "wait" )
               => Top(p).l[1] = Len(peers[p]) + 1
            /\ (InAcquire(p) /\ stack'[p][1].pc = "done")
               => ( /\ state[p] = TOKEN_HELD /\ state'[p] = TOKEN_HELD
                    /\ stack'[p][1].ret = "ok" )]_vars
    /\ \A p \in Procs :
           (InAcquire(p) /\ state[p] = TOKEN_HELD) ~> At(p, "acquire", "done")

\* C22 witness: an acquire() that began in NO_TOKEN at time 1 has called
\* every peer of the table, the token has come, and it has returned.
AcquireFromNoTokenWitness ==
    \E p \in Procs :
        /\ p # 0 /\ time[p] = 1 /\ state[p] = TOKEN_HELD
        /\ At(p, "acquire", "done") /\ Top(p).ret = "ok"
        /\ \A q \in Procs \ {p} :
               phase[q] = "ready" => (p \in DOMAIN request[q] /\ request[q][p] = 1)

\* C23: acquire() called in TOKEN_PRESENT ends, in the same critical section,
\* with the peer in TOKEN_HELD, its own token entry at the advanced time and
\* every other entry as it was, no call made; and a peer in TOKEN_HELD leaves
\* that state only through its own release(), whatever request_token arrives.
AcquireFromPresent ==
    [][\A p \in Procs :
          /\ (Acquire(p) /\ state[p] = TOKEN_PRESENT)
             => ( /\ state'[p] = TOKEN_HELD
                  /\ time'[p] = time[p] + 1
                  /\ token'[p] = Put(token[p], p, time[p] + 1)
                  /\ \A q \in Procs \ {p} :
                         token'[q] = token[q] /\ state'[q] = state[q]
                  /\ request' = request
                  /\ Len(stack'[p]) = 1
                  /\ NewTop(p).op = "acquire" /\ NewTop(p).pc = "done"
                  /\ NewTop(p).ret = "ok" )
          /\ (state[p] = TOKEN_HELD /\ state'[p] # TOKEN_HELD)
             => (At(p, "release", "scan") /\ ReleaseScan(p))]_vars

\* C23 witness: the first holder has acquired the token it had (no other
\* peer's entry was ever stamped), and the request of a peer that is waiting
\* in its first acquire() has arrived at it.
AcquireFromPresentWitness ==
    \E q \in Procs \ {0} :
        /\ state[0] = TOKEN_HELD /\ time[0] = 1 /\ token[0][0] = 1
        /\ At(0, "acquire", "done")
        /\ \A j \in DOMAIN token[0] \ {0} : token[0][j] = 0
        /\ InAcquire(q) /\ time[q] = 1 /\ state[q] = NO_TOKEN
        /\ request[0][q] = 1

\* the map an obtain_token call that is about to run carries
Snapshot(r) == Unprepare(Top(r).a[1])

\* C24: an obtain_token(snapshot) that runs at a peer q with an entry of its
\* own in the snapshot leaves time and request as they were and touches no
\* other peer; when time[q] > snapshot[q] the peer ends in TOKEN_HELD with the
\* snapshot in which its own entry is its time, otherwise it ends in
\* TOKEN_PRESENT with exactly the snapshot.
ObtainTokenEffect ==
    [][\A r \in Roots :
          (ObtainToken(r) /\ Top(r).at \in DOMAIN Snapshot(r))
          => LET q == Top(r).at
                 snap == Snapshot(r)
             IN  /\ time' = time /\ request' = request
                 /\ \A o \in Procs \ {q} :
                        token'[o] = token[o] /\ state'[o] = state[o]
                 /\ DOMAIN token'[q] = DOMAIN snap
                 /\ \A k \in DOMAIN snap \ {q} : token'[q][k] = snap[k]
                 /\ (time[q] > snap[q])
                    => (state'[q] = TOKEN_HELD /\ token'[q][q] = time[q])
                 /\ (time[q] <= snap[q])
                    => (state'[q] = TOKEN_PRESENT /\ token'[q] = snap)]_vars

\* C24 witness: peer 1, which never asked (time 0), got the token by an
\* obtain_token and is in TOKEN_PRESENT; peer 0 then asked, and the
\* obtain_token that peer 1's request_token handler sent has put peer 0 in
\* TOKEN_HELD with its own entry at its time (the handler has not yet gone on).
ObtainTokenEffectWitness ==
    /\ time[1] = 0 /\ state[1] = TOKEN_PRESENT
    /\ time[0] = 1 /\ state[0] = TOKEN_HELD /\ token[0][0] = 1
    /\ token[0][1] = token[1][1]
    /\ Len(stack[0]) = 2
    /\ stack[0][2].op = "request_token" /\ stack[0][2].at = 1
    /\ stack[0][2].pc = "sent" /\ stack[0][2].ret = "ok"

\* the thread that runs frame n of r's call chain for peer a owns a's mutex
\* and has called, over the network, a handler at peer b that has yet to take
\* b's mutex and cannot: another thread owns it
WaitsOn(a, b) ==
    \E r \in Roots :
        LET n == Len(stack[r])
        IN  /\ n >= 2
            /\ stack[r][n].rpc /\ stack[r][n].at = b
            /\ stack[r][n].pc \in {"start", "lock"}
            /\ ~CanLock(b, ThreadOf(r, n))
            /\ stack[r][n - 1].at = a
            /\ mutex[a].count > 0
            /\ mutex[a].owner = ThreadOf(r, n - 1)

\* a chain of such waits from a to b (there are NumPeers peers)
WaitPath(a, b) ==
    \/ WaitsOn(a, b)
    \/ \E c \in Procs : WaitsOn(a, c) /\ WaitsOn(c, b)
    \/ \E c, d \in Procs : WaitsOn(a, c) /\ WaitsOn(c, d) /\ WaitsOn(d, b)

\* C25 as claimed: no peers wait on each other in a cycle, each holding its
\* own mutex while its remote call waits for the next peer's mutex.
NoDeadlockCycle == \A a \in Procs : ~WaitPath(a, a)

\* C26 as claimed: when the obtain_token call made by release() or by
\* request_token() has failed, the failure goes on to the caller and the
\* sending peer is in TOKEN_PRESENT.
FailedForwardKeepsToken ==
    [][\A r \in Roots :
          ((ReleaseSent(r) \/ RequestTokenSent(r)) /\ Top(r).ret # "ok")
          => ( /\ state'[Top(r).at] = TOKEN_PRESENT
               /\ NewTop(r).ret \notin {"", "ok"} )]_vars

\* the token maps there are: the one each peer holds, and the one each
\* obtain_token call that has yet to run carries
TokenMaps ==
    {token[q] : q \in Procs}
    \cup {Unprepare(FrameOf(f).a[1]) :
            f \in {g \in FrameIds : /\ FrameOf(g).op = "obtain_token"
                                    /\ FrameOf(g).pc = "start"}}

\* in no token map is the entry of a peer beyond that peer's time
CreditWithinClock ==
    \A m \in TokenMaps : \A p \in DOMAIN m \cap Procs : m[p] <= time[p]

\* an obtain_token that runs at a peer that is inside acquire() finds the
\* peer's time beyond its entry in the snapshot and puts it in TOKEN_HELD
BlockedGetsHeld ==
    \A r \in Roots :
        (ObtainToken(r) /\ InAcquire(Top(r).at))
        => ( /\ Top(r).at \in DOMAIN Snapshot(r)
             /\ time[Top(r).at] > Snapshot(r)[Top(r).at]
             /\ state'[Top(r).at] = TOKEN_HELD )

\* C27: every entry of every token map, held or in transit, is at most the
\* time of the peer it is for, and an obtain_token delivered to a peer that is
\* inside acquire() puts that peer in TOKEN_HELD, never in TOKEN_PRESENT.
OwnCreditWithinOwnClock == []CreditWithinClock /\ [][BlockedGetsHeld]_vars

\* C27 witness: a release() has delivered the token to a peer that is inside
\* acquire(); the map the sender keeps credits that peer with less than its
\* time, and the peer is in TOKEN_HELD with its own entry at its time.
OwnCreditWithinOwnClockWitness ==
    \E q \in Procs : \E r \in Roots :
        /\ InAcquire(q) /\ state[q] = TOKEN_HELD /\ token[q][q] = time[q]
        /\ At(r, "release", "sent") /\ Top(r).ret = "ok"
        /\ Top(r).at # q
        /\ token[Top(r).at][q] < time[q]
        /\ token[Top(r).at][Top(r).at] = time[Top(r).at]

\* C2 as claimed, for the peer of the largest id: a peer that waits in
\* acquire() eventually is in TOKEN_HELD.
EventualAcquisition == Waiting(Last) ~> (state[Last] = TOKEN_HELD)

====
